---- MODULE Spec2Model ----
(***************************************************************************)
(* YSRN: the Y = R + S + N decomposition engine (ysrn_engine.py), the      *)
(* gated retriever (gated_retrieval.py) and the query pipeline             *)
(* (query_handler.py) over the in-memory persistence adapter.              *)
(*                                                                         *)
(* Floats are fixed-point integers: the real number x is the integer       *)
(* x * SCALE.  The source's additive guard 1e-8 is EPS, the smallest       *)
(* positive fixed-point value.  numpy arrays are tuples of fixed-point     *)
(* integers.  Optional values are tuples: <<>> is None, <<v>> is v.        *)
(***************************************************************************)
EXTENDS Integers, Sequences, FiniteSets, TLC

VARIABLES
    ctx,         \* every ContextBlock object, by identity: embedding and the three scores
    contexts,    \* InMemoryPersistenceAdapter.contexts: object identities, in insertion order
    W_gate,      \* GatedContextRetriever.W_gate: its shape (dim x dim) and its draw
    inv,         \* the submit_query invocations, by query id: position and locals
    results,     \* QueryHandler.results: query id -> QueryResult (<<>> while absent)
    call,        \* the last direct call of decompose / retrieve / classify_context and its outcome
    ncalls       \* the number of direct calls of retrieve / classify_context made

vars == <<ctx, contexts, W_gate, inv, results, call, ncalls>>

----------------------------------------------------------------------------
(* Bounds of the model *)

SCALE == 1000          \* fixed-point units per 1.0
Dim == 2               \* the deployment's embedding dimension
MaxComp == 1           \* decompose is applied to vectors with components in -MaxComp..MaxComp
MaxCtx == 2            \* ContextBlock objects created
MaxQueries == 2        \* submit_query invocations
MaxCalls == 1          \* direct calls of retrieve / classify_context
ExpRange == 6          \* np.exp is evaluated on [-ExpRange, ExpRange]; below it rounds to 0
MaxLogit == 30         \* gate logits are taken in steps of 0.2 up to MaxLogit / 5 either way

(* Program constants *)

EPS == 1               \* the 1e-8 guard: one fixed-point unit
NoiseThresholdInv == 10 \* noise_threshold = 0.1 = 1 / 10
NumHeads == 8
HeadDim == 64
GateInitBias == -2
SearchTopK == 50
RetrieveTopK == 10
ClipLimit == 500
GateWeight == 50       \* a draw of randn * 0.02, at 2.5 sigma: 0.05

None == <<>>
Some(v) == <<v>>
IsNone(o) == o = <<>>
Val(o) == o[1]

----------------------------------------------------------------------------
(* Fixed-point arithmetic *)

Abs(x) == IF x < 0 THEN -x ELSE x
Sign(x) == IF x < 0 THEN -1 ELSE 1
Min(a, b) == IF a <= b THEN a ELSE b
Max(a, b) == IF a >= b THEN a ELSE b

\* a * b of two fixed-point numbers
Mul(a, b) == Sign(a) * Sign(b) * ((Abs(a) * Abs(b)) \div SCALE)

\* a / b of two fixed-point numbers, b > 0
Div(a, b) == Sign(a) * ((Abs(a) * SCALE) \div b)

RECURSIVE SqrtSearch(_, _, _)
SqrtSearch(n, lo, hi) ==
    IF lo >= hi THEN lo
    ELSE LET mid == (lo + hi + 1) \div 2
         IN  IF mid * mid <= n THEN SqrtSearch(n, mid, hi)
                               ELSE SqrtSearch(n, lo, mid - 1)

\* floor of the square root of a natural number
ISqrt(n) == SqrtSearch(n, 0, Min(n, 46340))

RECURSIVE SumSeq(_)
SumSeq(s) == IF s = <<>> THEN 0 ELSE s[1] + SumSeq(Tail(s))

\* np.linalg.norm of a fixed-point vector
Norm(v) == ISqrt(SumSeq([i \in 1..Len(v) |-> v[i] * v[i]]))

DotFirstOnly(a, b) == Mul(a[1], b[1])
\* np.dot of two fixed-point vectors of equal length
Dot(a, b) ==
    LET p == SumSeq([i \in 1..Len(a) |-> a[i] * b[i]])
    IN  Sign(p) * (Abs(p) \div SCALE)

VSubKeep(a, b) == a
VSub(a, b) == [i \in 1..Len(a) |-> a[i] - b[i]]
VAdd(a, b) == [i \in 1..Len(a) |-> a[i] + b[i]]
VScaleIgnored(k, a) == a
VScale(k, a) == [i \in 1..Len(a) |-> Mul(k, a[i])]
Zeros(n) == [i \in 1..n |-> 0]

\* ContextEmbedding.to_numpy / QueryEmbedding.to_numpy: the stored tuple as an array
ToNumpy(e) == [i \in 1..Len(e) |-> e[i] * SCALE]

----------------------------------------------------------------------------
(* YSRNEngine.decompose *)

\* x / (np.linalg.norm(x) + 1e-8)
NormalizeSkipped(x) == x
Normalize(x) == LET n == Norm(x) IN [i \in 1..Len(x) |-> Div(x[i], n + EPS)]

\* np.linalg.svd of the residual as a (d, 1) column, full_matrices=False:
\* one singular value, the norm; U is the unit column, Vt is [[1]].
SVD(residual) ==
    LET n == Norm(residual)
        d == Len(residual)
    IN  [ U  |-> << IF n > 0 THEN [j \in 1..d |-> Div(residual[j], n)]
                             ELSE [j \in 1..d |-> IF j = 1 THEN SCALE ELSE 0] >>,
          s  |-> << n >>,
          Vt |-> << << SCALE >> >> ]

\* the except branch of line 82: U = [[1]], s = [norm(residual)], Vt = [[1]]
SVDFallback(residual) ==
    [ U  |-> << << SCALE >> >>,
      s  |-> << Norm(residual) >>,
      Vt |-> << << SCALE >> >> ]

\* np.cumsum
RECURSIVE CumSum(_)
CumSum(s) ==
    IF s = <<>> THEN <<>>
    ELSE LET front == CumSum(SubSeq(s, 1, Len(s) - 1))
         IN  Append(front, (IF front = <<>> THEN 0 ELSE front[Len(front)]) + s[Len(s)])

\* 1 - self.noise_threshold
NoiseCut == SCALE - (SCALE \div NoiseThresholdInv)

\* np.where(cumulative_energy > 1 - noise_threshold)[0], as 1-based indices
NoiseIndices(s) ==
    LET energy == [i \in 1..Len(s) |-> Mul(s[i], s[i])]
        total_energy == SumSeq(energy)
        cum == CumSum(energy)
        cumulative_energy == [i \in 1..Len(s) |-> Div(cum[i], total_energy + EPS)]
    IN  {i \in 1..Len(s) : cumulative_energy[i] > NoiseCut}

\* N: the sum over the noise indices of s[i] * U[:, i] * Vt[i, :]; a column of
\* length 1 is broadcast over the d entries of N
RECURSIVE NoiseSum(_, _, _)
NoiseSum(svd, idx, d) ==
    IF idx = {} THEN Zeros(d)
    ELSE LET i == CHOOSE x \in idx : TRUE
             column == svd.U[i]
             entry(j) == IF Len(column) = 1 THEN column[1] ELSE column[j]
             term == IF i <= Len(svd.s) /\ Len(svd.Vt) >= i
                     THEN [j \in 1..d |-> Mul(Mul(svd.s[i], entry(j)), svd.Vt[i][1])]
                     ELSE Zeros(d)
         IN  VAdd(term, NoiseSum(svd, idx \ {i}, d))

\* total_norm = R_norm + S_norm + N_norm + 1e-8
TotalNormWithoutNoise(R_norm, S_norm, N_norm) == R_norm + S_norm + EPS
TotalNorm(R_norm, S_norm, N_norm) == R_norm + S_norm + N_norm + EPS

\* decompose(context_embedding, query_embedding); svd_raises tells whether
\* np.linalg.svd raised and the except branch supplied U, s and Vt
DecomposeWith(context_embedding, query_embedding, svd_raises) ==
    LET Y == Normalize(context_embedding)
        q == Normalize(query_embedding)
        relevance_coeff == Dot(Y, q)
        R_init == VScale(relevance_coeff, q)
        residual == VSub(Y, R_init)
        svd == IF svd_raises THEN SVDFallback(residual) ELSE SVD(residual)
        noise_indices == NoiseIndices(svd.s)
        N == NoiseSum(svd, noise_indices, Len(residual))
        S == VSub(residual, N)
        R == R_init
        R_norm == Norm(R)
        S_norm == Norm(S)
        N_norm == Norm(N)
        total_norm == TotalNorm(R_norm, S_norm, N_norm)
    IN  [ Y |-> Y, R |-> R, S |-> S, N |-> N,
          relevance_ratio   |-> Div(R_norm, total_norm),
          superfluous_ratio |-> Div(S_norm, total_norm),
          noise_ratio       |-> Div(N_norm, total_norm),
          signal_quality    |-> Div(R_norm, S_norm + N_norm + EPS),
          confidence        |-> Abs(relevance_coeff),
          r_components      |-> 1,
          s_components      |-> Max(0, Len(svd.s) - Cardinality(noise_indices) - 1),
          n_components      |-> Cardinality(noise_indices) ]

\* decompose when np.linalg.svd succeeds
Decompose(context_embedding, query_embedding) ==
    DecomposeWith(context_embedding, query_embedding, FALSE)

----------------------------------------------------------------------------
(* GatedContextRetriever *)

\* the Taylor series of e^f for 0 <= f <= 1, summed until its terms round to 0
RECURSIVE ExpSeries(_, _, _, _)
ExpSeries(f, n, term, acc) ==
    IF term = 0 THEN acc
    ELSE LET next == Mul(term, f) \div n
         IN  ExpSeries(f, n + 1, next, acc + next)

Euler == ExpSeries(SCALE, 1, SCALE, SCALE)

\* e^k for an integer k
RECURSIVE PowE(_)
PowE(k) ==
    IF k = 0 THEN SCALE
    ELSE IF k > 0 THEN Mul(PowE(k - 1), Euler)
    ELSE Div(PowE(k + 1), Euler)

\* np.exp of a fixed-point number; below -ExpRange the value rounds to 0
NpExp(x) ==
    IF x < -(ExpRange * SCALE) THEN 0
    ELSE LET k == IF x >= 0 THEN x \div SCALE ELSE -((-x + SCALE - 1) \div SCALE)
             f == x - k * SCALE
         IN  Mul(PowE(k), ExpSeries(f, 1, SCALE, SCALE))

\* np.clip(x, -500, 500)
Clip(x) == Max(-(ClipLimit * SCALE), Min(ClipLimit * SCALE, x))

\* _sigmoid: 1 / (1 + np.exp(-np.clip(x, -500, 500))). Past ExpRange the
\* exponential is finite over the clip range, so the quotient stays positive:
\* the smallest positive value; below -ExpRange 1 + exp rounds to 1 and the
\* quotient is 1 exactly
Sigmoid(x) ==
    LET y == -Clip(x)
    IN  IF y > ExpRange * SCALE THEN 1 ELSE Div(SCALE, SCALE + NpExp(y))

RECURSIVE MaxSeq(_)
MaxSeq(s) == IF Len(s) = 1 THEN s[1] ELSE Max(s[1], MaxSeq(Tail(s)))

\* _softmax: exp(x - max(x)) / (sum + 1e-8)
Softmax(x) ==
    LET m == MaxSeq(x)
        exp_x == [i \in 1..Len(x) |-> NpExp(x[i] - m)]
        total == SumSeq(exp_x)
    IN  [i \in 1..Len(x) |-> Div(exp_x[i], total + EPS)]

\* np.mean of a non-empty fixed-point vector
Mean(s) == LET t == SumSeq(s) IN Sign(t) * (Abs(t) \div Len(s))

\* entry (i, j) of W_gate = np.random.randn(hidden_dim, hidden_dim) * 0.02:
\* the draws are one of a few sample matrices, named by their pattern
WEntry(W, i, j) ==
    CASE W.pattern = "zero" -> 0
      [] W.pattern = "cols" -> IF j % 2 = 1 THEN GateWeight ELSE -GateWeight
      [] OTHER              -> IF i = j THEN -GateWeight ELSE GateWeight

\* np.dot(query, self.W_gate) + self.gate_bias; the shapes (d,) and (h, h) must agree
GateLogits(query, W) ==
    [j \in 1..W.dim |->
        SumSeq([i \in 1..W.dim |-> Mul(query[i], WEntry(W, i, j))]) + GateInitBias * SCALE]

\* np.resize(gate, n): the gate repeated to length n
Resize(gate, n) == [i \in 1..n |-> gate[((i - 1) % Len(gate)) + 1]]

ComputeGatedAttentionZeroCheck(query, keys, values, W) ==
    [raised |-> Norm(query) = 0, gated_output |-> <<>>,
     gate |-> [j \in 1..W.dim |-> SCALE \div 2]]
\* compute_gated_attention(query, keys, values) -> (gated_output, gate);
\* raised is the ValueError of np.dot on misaligned shapes
ComputeGatedAttention(query, keys, values, W) ==
    LET d_k == Len(query)
        root == ISqrt((d_k * SCALE + EPS) * SCALE)
        scores == [i \in 1..Len(keys) |-> Div(Dot(query, keys[i]), root)]
        attention_weights == Softmax(scores)
        sdpa_output == [j \in 1..d_k |->
            SumSeq([i \in 1..Len(keys) |-> Mul(attention_weights[i], values[i][j])])]
    IN  IF d_k # W.dim
        THEN [raised |-> TRUE, gated_output |-> <<>>, gate |-> <<>>]
        ELSE LET gate_logits == GateLogits(query, W)
                 gate == [j \in 1..W.dim |-> Sigmoid(gate_logits[j])]
                 aligned == IF Len(gate) >= Len(sdpa_output)
                            THEN SubSeq(gate, 1, Len(sdpa_output))
                            ELSE Resize(gate, Len(sdpa_output))
             IN  [raised |-> FALSE,
                  gated_output |-> [j \in 1..d_k |-> Mul(sdpa_output[j], aligned[j])],
                  gate |-> gate]

\* valid_candidates: the candidates that have an embedding, in list order
ValidCandidates(heap, candidates) ==
    SelectSeq(candidates, LAMBDA o : ~IsNone(heap[o].embedding))

Perms(n) == {p \in [1..n -> 1..n] : \A i, j \in 1..n : i # j => p[i] # p[j]}

\* np.argsort(x): a permutation that puts x in ascending order; the default
\* kind is not stable, so equal values may come in any order
ArgSortUnsorted(x) == Perms(Len(x))
ArgSort(x) ==
    {p \in Perms(Len(x)) : \A i \in 1..(Len(x) - 1) : x[p[i]] <= x[p[i + 1]]}

\* s[::-1]
Reverse(s) == [i \in 1..Len(s) |-> s[Len(s) + 1 - i]]

\* s[:k], k >= 0
TakeOneMore(s, k) == SubSeq(s, 1, Min(k + 1, Len(s)))
Take(s, k) == SubSeq(s, 1, Min(k, Len(s)))

FinalScoresInverted(q_vec, keys, gates) ==
    [i \in 1..Len(keys) |-> Mul(Dot(q_vec, keys[i]), Mean(gates) - SCALE)]
\* final_scores = np.dot(q_vec, keys.T) * mean(gates[:len(relevance)])
FinalScores(q_vec, keys, gates) ==
    LET relevance == [i \in 1..Len(keys) |-> Dot(q_vec, keys[i])]
        mean_gate == IF Len(gates) > 0 THEN Mean(Take(gates, Len(relevance)))
                                       ELSE SCALE \div 2
    IN  [i \in 1..Len(keys) |-> Mul(relevance[i], mean_gate)]

\* the loop of lines 99-103: each returned candidate is stamped with its final score
StampNothing(heap, valid, picked, final_scores) == heap
StampAllValid(heap, valid, picked, final_scores) ==
    [o \in DOMAIN heap |->
        IF \E n \in 1..Len(valid) : valid[n] = o
        THEN [heap[o] EXCEPT !.relevance_score =
                 Some(final_scores[CHOOSE n \in 1..Len(valid) : valid[n] = o])]
        ELSE heap[o]]
Stamp(heap, valid, picked, final_scores) ==
    [o \in DOMAIN heap |->
        IF \E n \in 1..Len(picked) : valid[picked[n]] = o
        THEN LET n == CHOOSE m \in 1..Len(picked) :
                        /\ valid[picked[m]] = o
                        /\ \A l \in (m + 1)..Len(picked) : valid[picked[l]] # o
             IN  [heap[o] EXCEPT !.relevance_score = Some(final_scores[picked[n]])]
        ELSE heap[o]]

\* lines 99-105: the picked candidates, stamped and returned
Returned(heap, valid, picked, final_scores) ==
    [raised |-> FALSE,
     ret |-> [n \in 1..Len(picked) |-> valid[picked[n]]],
     scores |-> [n \in 1..Len(picked) |-> final_scores[picked[n]]],
     heap |-> Stamp(heap, valid, picked, final_scores)]

RetrieveUnfiltered(heap, query_embedding, candidates, top_k, W) ==
    { Returned(heap, candidates, Take([i \in 1..Len(candidates) |-> i], top_k),
               [i \in 1..Len(candidates) |-> 0]) }
\* retrieve(query, candidates, top_k): the possible outcomes, one per order
\* np.argsort may give; query_embedding is <<>> for a query without embedding
Retrieve(heap, query_embedding, candidates, top_k, W) ==
    LET valid == ValidCandidates(heap, candidates)
        unchanged == [raised |-> FALSE, ret |-> <<>>, scores |-> <<>>, heap |-> heap]
    IN  IF candidates = <<>> \/ IsNone(query_embedding) THEN {unchanged}
        ELSE IF valid = <<>> THEN {unchanged}
        ELSE LET q_vec == ToNumpy(query_embedding)
                 keys == [i \in 1..Len(valid) |-> ToNumpy(heap[valid[i]].embedding)]
                 att == ComputeGatedAttention(q_vec, keys, keys, W)
             IN  IF att.raised
                 THEN {[raised |-> TRUE, ret |-> <<>>, scores |-> <<>>, heap |-> heap]}
                 ELSE LET final_scores == FinalScores(q_vec, keys, att.gate)
                      IN  { Returned(heap, valid, Take(Reverse(p), top_k), final_scores)
                            : p \in ArgSort(final_scores) }

----------------------------------------------------------------------------
(* YSRNEngine.classify_context / batch_classify *)

\* lines 159-161: the three ratios are written to the candidate
WriteScoresRelevanceOnly(block, result) ==
    [block EXCEPT !.relevance_score = Some(result.relevance_ratio)]
WriteScores(block, result) ==
    [block EXCEPT !.relevance_score = Some(result.relevance_ratio),
                  !.superfluous_score = Some(result.superfluous_ratio),
                  !.noise_score = Some(result.noise_ratio)]

\* classify_context(context, query); raised is the ValueError of line 152
ClassifyUnchecked(heap, o, query_embedding) ==
    LET c == IF IsNone(heap[o].embedding) THEN Zeros(Len(query_embedding))
             ELSE ToNumpy(heap[o].embedding)
        q == IF IsNone(query_embedding) THEN Zeros(Len(c)) ELSE ToNumpy(query_embedding)
    IN  [raised |-> IsNone(heap[o].embedding) \/ IsNone(query_embedding),
         heap |-> [heap EXCEPT ![o] = WriteScores(heap[o], Decompose(c, q))]]
ClassifyContext(heap, o, query_embedding) ==
    IF IsNone(heap[o].embedding) \/ IsNone(query_embedding)
    THEN [raised |-> TRUE, heap |-> heap]
    ELSE [raised |-> FALSE,
          heap |-> [heap EXCEPT ![o] =
                      WriteScores(heap[o], Decompose(ToNumpy(heap[o].embedding),
                                                     ToNumpy(query_embedding)))]]

BatchClassifySkipped(heap, list, query_embedding) ==
    [raised |-> FALSE, ret |-> list, heap |-> heap]
BatchClassifyFirstOnly(heap, list, query_embedding, n) ==
    IF list = <<>> THEN [raised |-> FALSE, ret |-> list, heap |-> heap]
    ELSE [raised |-> FALSE, ret |-> list,
          heap |-> ClassifyContext(heap, list[1], query_embedding).heap]
RECURSIVE BatchClassifyAtomic(_, _, _, _)

BatchClassifyAtomic(heap, list, query_embedding, n) ==
    IF n > Len(list) THEN [raised |-> FALSE, ret |-> list, heap |-> heap]
    ELSE IF \/ IsNone(query_embedding)
            \/ \E m \in n..Len(list) : IsNone(heap[list[m]].embedding)
         THEN [raised |-> TRUE, ret |-> <<>>, heap |-> heap]
         ELSE BatchClassifyAtomic(ClassifyContext(heap, list[n], query_embedding).heap,
                                  list, query_embedding, n + 1)
\* batch_classify(contexts, query): classify_context on each item in turn;
\* the first error ends the comprehension and no list is returned
RECURSIVE BatchClassifyFrom(_, _, _, _)

BatchClassifyFrom(heap, list, query_embedding, n) ==
    IF n > Len(list) THEN [raised |-> FALSE, ret |-> list, heap |-> heap]
    ELSE LET one == ClassifyContext(heap, list[n], query_embedding)
         IN  IF one.raised THEN [raised |-> TRUE, ret |-> <<>>, heap |-> one.heap]
             ELSE BatchClassifyFrom(one.heap, list, query_embedding, n + 1)

BatchClassify(heap, list, query_embedding) == BatchClassifyFrom(heap, list, query_embedding, 1)

\* ContextClassifier.classify / classify_batch: forwarded to the engine
Classify(heap, o, query_embedding) == ClassifyContext(heap, o, query_embedding)
ClassifyBatch(heap, list, query_embedding) == BatchClassify(heap, list, query_embedding)

----------------------------------------------------------------------------
(* InMemoryPersistenceAdapter.search_similar *)

\* list.sort(key=lambda x: x[1], reverse=True) on <<item, key>> pairs:
\* stable, so equal keys keep their order
RECURSIVE InsertDesc(_, _)
InsertDesc(sorted, x) ==
    IF sorted = <<>> THEN <<x>>
    ELSE IF sorted[Len(sorted)][2] >= x[2] THEN Append(sorted, x)
    ELSE Append(InsertDesc(SubSeq(sorted, 1, Len(sorted) - 1), x), sorted[Len(sorted)])

RECURSIVE SortDescFrom(_, _, _)
SortDescFrom(pairs, n, acc) ==
    IF n > Len(pairs) THEN acc
    ELSE SortDescFrom(pairs, n + 1, InsertDesc(acc, pairs[n]))

NoSort(pairs) == pairs
SortDesc(pairs) == SortDescFrom(pairs, 1, <<>>)

Items(pairs) == [i \in 1..Len(pairs) |-> pairs[i][1]]

\* search_similar(embedding, top_k): the stored blocks that have an embedding,
\* by cosine similarity, best first
SearchSimilar(heap, store, embedding, top_k) ==
    LET e == ToNumpy(embedding)
        sim(o) == LET v == ToNumpy(heap[o].embedding)
                  IN  Div(Dot(e, v), Mul(Norm(e), Norm(v)) + EPS)
        with == SelectSeq(store, LAMBDA o : ~IsNone(heap[o].embedding))
        scores == [i \in 1..Len(with) |-> <<with[i], sim(with[i])>>]
    IN  IF store = <<>> THEN <<>> ELSE Take(Items(SortDesc(scores)), top_k)

----------------------------------------------------------------------------
(* QueryHandler.submit_query *)

RelevanceKey(heap, o) ==
    IF IsNone(heap[o].relevance_score) THEN 0 ELSE Val(heap[o].relevance_score)
NoiseKey(heap, o) ==
    IF IsNone(heap[o].noise_score) THEN 0 ELSE Val(heap[o].noise_score)

\* classified.sort(key=lambda x: x.relevance_score or 0, reverse=True)
SortByRelevanceUnsorted(heap, classified) == classified
SortByRelevance(heap, classified) ==
    Items(SortDesc([i \in 1..Len(classified) |->
                      <<classified[i], RelevanceKey(heap, classified[i])>>]))

\* float(np.mean(list)): nan for the empty list
NpMean(list) ==
    IF list = <<>> THEN [nan |-> TRUE, value |-> 0]
    ELSE [nan |-> FALSE, value |-> Mean(list)]

\* the QueryResult of lines 68-77
MakeResult(heap, query_id, classified, candidates) ==
    [ query_id |-> query_id,
      contexts |-> classified,
      total_candidates |-> Len(candidates),
      decomposition_stats |->
        [ avg_relevance |-> NpMean([i \in 1..Len(classified) |-> RelevanceKey(heap, classified[i])]),
          avg_noise     |-> NpMean([i \in 1..Len(classified) |-> NoiseKey(heap, classified[i])]) ] ]

----------------------------------------------------------------------------
(* State *)

Basis(i) == [j \in 1..Dim |-> IF j = i THEN 1 ELSE 0]
Neg(v) == [j \in 1..Len(v) |-> -v[j]]

\* the embeddings the encoder gives to stored texts and to queries
CtxVecs == {Basis(1), Basis(Dim), Neg(Basis(1)), Zeros(Dim)}
PoolVecs == {Basis(1), Basis(Dim), Neg(Basis(1))}
QueryVecs == {Basis(1), Basis(Dim)}
\* the vectors decompose is applied to directly
DecompVecs == [1..Dim -> (-MaxComp)..MaxComp]

Patterns == {"zero", "cols"}

\* GatedContextRetriever(num_heads, head_dim, gate_init_bias): the instances the
\* constructor may build for one hidden dimension, one per draw of W_gate
Instances(hidden_dim) == {[dim |-> hidden_dim, pattern |-> p] : p \in Patterns}

\* ContextBlock(id, content, embedding): the three scores default to None
NewBlock(e) ==
    [embedding |-> e, relevance_score |-> None, superfluous_score |-> None,
     noise_score |-> None]

NoCall ==
    [op |-> "none", context |-> <<>>, query |-> <<>>, top_k |-> 0, target |-> 0,
     candidates |-> <<>>, ret |-> <<>>, scores |-> <<>>, raised |-> FALSE, result |-> <<>>,
     svd_raises |-> FALSE, logit |-> 0]

Finished == {"returned", "failed"}
SyncPcs == {"retrieve", "classify", "store"}
\* no submit_query call is in progress
Idle == \A i \in DOMAIN inv : inv[i].pc \in Finished
\* no submit_query call is between two of its await points
NoSync == \A i \in DOMAIN inv : inv[i].pc \notin SyncPcs

\* QueryHandler.get_result(query_id): self.results.get(query_id)
GetResult(query_id) ==
    IF query_id \in DOMAIN results THEN results[query_id] ELSE None

\* the retriever is built for the deployment's dimension: num_heads * head_dim = Dim
Init ==
    /\ ctx = <<>>
    /\ contexts = <<>>
    /\ W_gate \in {[dim |-> Dim, pattern |-> p] : p \in Patterns}
    /\ inv = <<>>
    /\ results = <<>>
    /\ call = NoCall
    /\ ncalls = 0

\* ContextHandler.add_context: a new block with the encoder's embedding is saved;
\* the store is filled before queries are served, with texts of different embeddings
AddContext(e) ==
    /\ Len(ctx) < MaxCtx
    /\ inv = <<>> /\ ncalls = 0
    /\ \A o \in DOMAIN ctx : ctx[o].embedding # e
    /\ ctx' = Append(ctx, NewBlock(e))
    /\ contexts' = Append(contexts, Len(ctx) + 1)
    /\ UNCHANGED <<W_gate, inv, results, call, ncalls>>

\* a caller builds a ContextBlock without an embedding (the default)
NewContextBlock ==
    /\ Len(ctx) < MaxCtx
    /\ inv = <<>> /\ ncalls = 0
    /\ ctx' = Append(ctx, NewBlock(None))
    /\ UNCHANGED <<contexts, W_gate, inv, results, call, ncalls>>

\* a direct call retrieve(query, candidates, top_k) on all blocks
CallRetrieve(q, k) ==
    /\ Idle
    /\ ncalls < MaxCalls
    /\ ncalls' = ncalls + 1
    /\ LET candidates == [i \in 1..Len(ctx) |-> i]
       IN  \E out \in Retrieve(ctx, q, candidates, k, W_gate) :
             /\ ctx' = out.heap
             /\ call' = [NoCall EXCEPT !.op = "retrieve", !.query = q, !.top_k = k,
                                       !.candidates = candidates, !.ret = out.ret,
                                       !.scores = out.scores, !.raised = out.raised]
    /\ UNCHANGED <<contexts, W_gate, inv, results>>

\* a direct call classify_context(context, query)
CallClassify(o, q) ==
    /\ Idle
    /\ ncalls < MaxCalls
    /\ ncalls' = ncalls + 1
    /\ o \in DOMAIN ctx
    /\ LET out == ClassifyContext(ctx, o, q)
       IN  /\ ctx' = out.heap
           /\ call' = [NoCall EXCEPT !.op = "classify", !.query = q, !.target = o,
                                     !.raised = out.raised,
                                     !.ret = IF out.raised THEN <<>> ELSE <<o>>]
    /\ UNCHANGED <<contexts, W_gate, inv, results>>

\* the lists a caller may pass: blocks it holds, each once, in any order
Lists == UNION {{l \in [1..k -> DOMAIN ctx] : \A i, j \in 1..k : i # j => l[i] # l[j]}
                    : k \in 0..Len(ctx)}

\* a direct call ContextClassifier.classify_batch(contexts, query), which is
\* the engine's batch_classify(contexts, query)
CallBatchClassify(list, q) ==
    /\ Idle
    /\ ncalls < MaxCalls
    /\ ncalls' = ncalls + 1
    /\ LET out == ClassifyBatch(ctx, list, q)
       IN  /\ ctx' = out.heap
           /\ call' = [NoCall EXCEPT !.op = "classify_batch", !.query = q,
                                     !.candidates = list,
                                     !.raised = out.raised, !.ret = out.ret]
    /\ UNCHANGED <<contexts, W_gate, inv, results>>

\* a direct call decompose(context_embedding, query_embedding) on the chosen inputs
CallDecompose ==
    /\ call.op = "input"
    /\ call' = [call EXCEPT !.op = "decompose",
                            !.result = Some(DecomposeWith(ToNumpy(call.context),
                                                          ToNumpy(call.query),
                                                          call.svd_raises))]
    /\ UNCHANGED <<ctx, contexts, W_gate, inv, results, ncalls>>

\* a direct call retrieve(query, [candidate], top_k=1) on the chosen inputs,
\* the candidate a new block that carries the context vector
CallRetrieveInput ==
    /\ call.op = "input"
    /\ \E out \in Retrieve(<<NewBlock(call.context)>>, call.query, <<1>>, 1, W_gate) :
          /\ ctx' = out.heap
          /\ call' = [call EXCEPT !.op = "retrieve", !.top_k = 1, !.candidates = <<1>>,
                                  !.ret = out.ret, !.scores = out.scores,
                                  !.raised = out.raised]
    /\ UNCHANGED <<contexts, W_gate, inv, results, ncalls>>

\* line 58: gate = self._sigmoid(gate_logits), on one entry of gate_logits
CallSigmoid ==
    /\ call.op = "input"
    /\ call' = [call EXCEPT !.op = "sigmoid", !.result = Some(Sigmoid(call.logit))]
    /\ UNCHANGED <<ctx, contexts, W_gate, inv, results, ncalls>>

\* submit_query, lines 38-54: the query is encoded and recorded, and the call
\* waits for search_similar
Begin(e) ==
    /\ inv' = Append(inv, [pc |-> "search", query |-> e, candidates |-> <<>>,
                           results |-> <<>>, classified |-> <<>>])
    /\ results' = Append(results, None)
    /\ UNCHANGED <<ctx, contexts, W_gate, call, ncalls>>

SubmitQuery(e) ==
    /\ Len(inv) < MaxQueries
    /\ Idle
    /\ Begin(e)

\* line 54: search_similar returns; the call runs on to its next await
PSearch(i) ==
    /\ inv[i].pc = "search"
    /\ NoSync
    /\ inv' = [inv EXCEPT ![i].pc = "retrieve",
                          ![i].candidates =
                              SearchSimilar(ctx, contexts, inv[i].query, SearchTopK)]
    /\ UNCHANGED <<ctx, contexts, W_gate, results, call, ncalls>>

\* line 57: results = self.retriever.retrieve(query, candidates, top_k=10)
PRetrieve(i) ==
    /\ inv[i].pc = "retrieve"
    /\ \E out \in Retrieve(ctx, inv[i].query, inv[i].candidates, RetrieveTopK, W_gate) :
         /\ ctx' = out.heap
         /\ inv' = IF out.raised THEN [inv EXCEPT ![i].pc = "failed"]
                   ELSE [inv EXCEPT ![i].pc = "classify", ![i].results = out.ret]
    /\ UNCHANGED <<contexts, W_gate, results, call, ncalls>>

\* line 60: classified = self.ysrn.batch_classify(results, query)
PClassify(i) ==
    /\ inv[i].pc = "classify"
    /\ LET out == BatchClassify(ctx, inv[i].results, inv[i].query)
       IN  /\ ctx' = out.heap
           /\ inv' = IF out.raised THEN [inv EXCEPT ![i].pc = "failed"]
                     ELSE [inv EXCEPT ![i].pc = "store", ![i].classified = out.ret]
    /\ UNCHANGED <<contexts, W_gate, results, call, ncalls>>

\* lines 63-79: the list is sorted in place and the QueryResult is stored
PStore(i) ==
    /\ inv[i].pc = "store"
    /\ LET sorted == SortByRelevance(ctx, inv[i].classified)
       IN  /\ inv' = [inv EXCEPT ![i].pc = "publish", ![i].classified = sorted]
           /\ results' = [results EXCEPT ![i] =
                             Some(MakeResult(ctx, i, sorted, inv[i].candidates))]
    /\ UNCHANGED <<ctx, contexts, W_gate, call, ncalls>>

\* lines 82-87: the event is published and the query id returned; the call's
\* locals are gone
PReturn(i) ==
    /\ inv[i].pc = "publish"
    /\ NoSync
    /\ inv' = [inv EXCEPT ![i].pc = "returned", ![i].candidates = <<>>,
                          ![i].results = <<>>, ![i].classified = <<>>]
    /\ UNCHANGED <<ctx, contexts, W_gate, results, call, ncalls>>

\* stored texts and submit_query calls, made one at a time
Next ==
    \/ \E e \in PoolVecs : AddContext(e)
    \/ \E e \in QueryVecs : SubmitQuery(e)
    \/ \E i \in DOMAIN inv : PSearch(i)
    \/ \E i \in DOMAIN inv : PRetrieve(i)
    \/ \E i \in DOMAIN inv : PClassify(i)
    \/ \E i \in DOMAIN inv : PStore(i)
    \/ \E i \in DOMAIN inv : PReturn(i)

Spec == Init /\ [][Next]_vars

\* submit_query calls that overlap: a call may begin while others wait at an await
SubmitQueryConcurrent(e) ==
    /\ Len(inv) < MaxQueries
    /\ NoSync
    /\ Begin(e)

NextConcurrent ==
    \/ \E e \in QueryVecs : AddContext(e)
    \/ \E e \in QueryVecs : SubmitQueryConcurrent(e)
    \/ \E i \in DOMAIN inv : PSearch(i)
    \/ \E i \in DOMAIN inv : PRetrieve(i)
    \/ \E i \in DOMAIN inv : PClassify(i)
    \/ \E i \in DOMAIN inv : PStore(i)
    \/ \E i \in DOMAIN inv : PReturn(i)

InitConcurrent ==
    /\ Init
    /\ W_gate.pattern = "cols"

SpecConcurrent == InitConcurrent /\ [][NextConcurrent]_vars

\* the handler of tests/conftest.py: the retriever is built with its defaults,
\* num_heads=8 and head_dim=64, whatever the encoder's dimension
InitEndToEnd ==
    /\ ctx = <<>>
    /\ contexts = <<>>
    /\ W_gate \in {[dim |-> NumHeads * HeadDim, pattern |-> p] : p \in Patterns}
    /\ inv = <<>>
    /\ results = <<>>
    /\ call = NoCall
    /\ ncalls = 0

SpecEndToEnd == InitEndToEnd /\ [][Next]_vars

\* direct calls of the retriever and of the engine on caller-held blocks
NextCalls ==
    \/ \E e \in CtxVecs : AddContext(e)
    \/ NewContextBlock
    \/ \E q \in QueryVecs \cup {None}, k \in 0..MaxCtx : CallRetrieve(q, k)
    \/ \E o \in 1..MaxCtx, q \in QueryVecs \cup {None} : CallClassify(o, q)

SpecCalls == Init /\ [][NextCalls]_vars

\* batch calls of the classifier on lists of stored blocks
NextBatch ==
    \/ \E e \in PoolVecs : AddContext(e)
    \/ NewContextBlock
    \/ \E list \in Lists, q \in QueryVecs \cup {None} : CallBatchClassify(list, q)

SpecBatch == Init /\ [][NextBatch]_vars

\* decompose applied to a pair of vectors
InitDecompose ==
    /\ ctx = <<>>
    /\ contexts = <<>>
    /\ W_gate = [dim |-> Dim, pattern |-> "zero"]
    /\ inv = <<>>
    /\ results = <<>>
    /\ call \in {[NoCall EXCEPT !.op = "input", !.context = c, !.query = q,
                                 !.svd_raises = f] :
                    c \in DecompVecs, q \in DecompVecs, f \in BOOLEAN}
    /\ ncalls = 0

NextDecompose ==
    \/ CallDecompose
    \/ CallRetrieveInput

SpecDecompose == InitDecompose /\ [][NextDecompose]_vars

\* the values an entry of np.dot(query, W_gate) + gate_bias may take for
\* arbitrary weights, bias and query: small steps around 0, and the ends of
\* the clip range and just beyond
Logits ==
    {k * (SCALE \div 5) : k \in (-MaxLogit)..MaxLogit}
        \cup {ClipLimit * SCALE, -(ClipLimit * SCALE),
              (ClipLimit + 1) * SCALE, -((ClipLimit + 1) * SCALE)}

\* _sigmoid applied to one gate logit
InitGate ==
    /\ ctx = <<>>
    /\ contexts = <<>>
    /\ W_gate = [dim |-> Dim, pattern |-> "zero"]
    /\ inv = <<>>
    /\ results = <<>>
    /\ call \in {[NoCall EXCEPT !.op = "input", !.logit = x] : x \in Logits}
    /\ ncalls = 0

NextGate == CallSigmoid

SpecGate == InitGate /\ [][NextGate]_vars

----------------------------------------------------------------------------
(* Properties *)

\* the spec's tolerance 1e-6 is a hundred times the guard 1e-8
RatioTol == 100 * EPS

Decomposed == call.op = "decompose"
DResult == Val(call.result)
RatioSum == DResult.relevance_ratio + DResult.superfluous_ratio + DResult.noise_ratio
RatiosBounded ==
    \A r \in {DResult.relevance_ratio, DResult.superfluous_ratio, DResult.noise_ratio} :
        0 <= r /\ r <= SCALE + EPS
IsZeroVec(v) == \A i \in 1..Len(v) : v[i] = 0

C18_AdditiveSplit ==
    Decomposed => VAdd(VAdd(DResult.R, DResult.S), DResult.N) = DResult.Y

\* decompose has run through the except branch on a context that is neither
\* zero nor along the query, and returned non-zero R, S and N
C18_Witness ==
    /\ Decomposed
    /\ call.svd_raises
    /\ ~IsZeroVec(DResult.R)
    /\ ~IsZeroVec(DResult.S)
    /\ ~IsZeroVec(DResult.N)

\* C19: for every decompose result the norms of the three components sum,
\* within the tolerance, to the norm of the normalized input: |R| + |S| + |N| = |Y|.
C19_NormsAddUp ==
    Decomposed =>
        Abs(Norm(DResult.R) + Norm(DResult.S) + Norm(DResult.N) - Norm(DResult.Y))
            <= RatioTol

\* the cosine similarity of two non-zero vectors, from the raw inputs
Cosine(a, b) == Div(Dot(a, b), Mul(Norm(a), Norm(b)))

\* C20: for every pair of input vectors of equal dimension the confidence
\* decompose returns lies in [0, 1] and is the absolute value of the dot
\* product of the normalized inputs: within the tolerance the absolute cosine
\* similarity of the inputs when both are non-zero, and 0 when one is zero.
C20_ConfidenceIsAbsCosine ==
    Decomposed =>
        LET c == ToNumpy(call.context)
            q == ToNumpy(call.query)
        IN  /\ 0 <= DResult.confidence /\ DResult.confidence <= SCALE
            /\ (~IsZeroVec(c) /\ ~IsZeroVec(q)) =>
                  Abs(DResult.confidence - Abs(Cosine(c, q))) <= RatioTol
            /\ (IsZeroVec(c) \/ IsZeroVec(q)) => DResult.confidence = 0

\* decompose has returned a confidence strictly between 0 and 1 for a context
\* whose raw dot product with the query is negative
C20_Witness ==
    /\ Decomposed
    /\ Dot(ToNumpy(call.context), ToNumpy(call.query)) < 0
    /\ DResult.confidence > 0
    /\ DResult.confidence < SCALE - RatioTol

ZeroInput == IsZeroVec(call.context) \/ IsZeroVec(call.query)

\* C21: decompose and retrieve do not raise on an all-zero candidate vector,
\* an all-zero query vector or both: every guarded denominator is positive,
\* decompose returns ratios in [0, 1] with confidence 0, and retrieve returns
\* the candidate with final score 0.
C21_ZeroInputsDefined ==
    ZeroInput =>
        /\ Norm(ToNumpy(call.context)) + EPS > 0
        /\ Norm(ToNumpy(call.query)) + EPS > 0
        /\ call.op = "decompose" =>
              /\ ~IsNone(call.result)
              /\ Norm(DResult.R) + Norm(DResult.S) + Norm(DResult.N) + EPS > 0
              /\ \A r \in {DResult.relevance_ratio, DResult.superfluous_ratio,
                            DResult.noise_ratio} : 0 <= r /\ r <= SCALE
              /\ DResult.signal_quality = 0
              /\ DResult.confidence = 0
        /\ call.op = "retrieve" =>
              /\ ~call.raised
              /\ call.ret = <<1>>
              /\ call.scores = <<0>>
              /\ ctx[1].relevance_score = Some(0)

\* retrieve has scored an all-zero candidate against an all-zero query
C21_Witness ==
    /\ call.op = "retrieve"
    /\ IsZeroVec(call.context)
    /\ IsZeroVec(call.query)
    /\ call.ret = <<1>>
    /\ ctx[1].relevance_score = Some(0)

\* the residual of the last decompose call, Y - R
Residual == VSub(DResult.Y, DResult.R)

\* C22: when the svd step fails decompose still returns a complete result,
\* with the whole residual as one component: the residual vector itself is N
\* (and S is zero) when it is classified as noise, and S (with N zero) otherwise.
C22_FallbackKeepsResidual ==
    (Decomposed /\ call.svd_raises) =>
        /\ ~IsNone(call.result)
        /\ \/ DResult.n_components = 1 /\ DResult.N = Residual /\ IsZeroVec(DResult.S)
           \/ DResult.n_components = 0 /\ DResult.S = Residual /\ IsZeroVec(DResult.N)

\* the raw dot product of the inputs of the last decompose call
RawDot == SumSeq([i \in 1..Len(call.context) |-> call.context[i] * call.query[i]])

\* C23: when the candidate embedding is orthogonal to the query embedding,
\* decompose yields relevance coefficient 0: R is the zero vector,
\* relevance_ratio is 0 and confidence is 0.
C23_OrthogonalIsIrrelevant ==
    (Decomposed /\ RawDot = 0) =>
        /\ IsZeroVec(DResult.R)
        /\ DResult.relevance_ratio = 0
        /\ DResult.confidence = 0

\* decompose has run on two non-zero orthogonal vectors and attributed the
\* whole candidate to noise
C23_Witness ==
    /\ Decomposed
    /\ ~call.svd_raises
    /\ RawDot = 0
    /\ ~IsZeroVec(call.context)
    /\ ~IsZeroVec(call.query)
    /\ IsZeroVec(DResult.R)
    /\ DResult.noise_ratio > SCALE - RatioTol

\* C24 (as stated): when the candidate embedding equals the query embedding,
\* relevance_ratio is within the tolerance of 1.0, noise_ratio of 0 and
\* confidence of 1.0.
C24_IdenticalIsRelevantAll ==
    (Decomposed /\ call.context = call.query) =>
        /\ Abs(DResult.relevance_ratio - SCALE) <= RatioTol
        /\ DResult.noise_ratio <= RatioTol
        /\ Abs(DResult.confidence - SCALE) <= RatioTol

\* C24 (amended): when the candidate embedding equals the query embedding and
\* is not the zero vector, relevance_ratio is within the tolerance of 1.0,
\* noise_ratio of 0 and confidence of 1.0; for the zero vector all three are 0.
C24_IdenticalIsRelevant ==
    (Decomposed /\ call.context = call.query) =>
        IF IsZeroVec(call.context)
        THEN /\ DResult.relevance_ratio = 0
             /\ DResult.noise_ratio = 0
             /\ DResult.confidence = 0
        ELSE /\ Abs(DResult.relevance_ratio - SCALE) <= RatioTol
             /\ DResult.noise_ratio <= RatioTol
             /\ Abs(DResult.confidence - SCALE) <= RatioTol

\* decompose has run on a non-zero candidate equal to the query, with more
\* than one non-zero entry
C24_Witness ==
    /\ Decomposed
    /\ call.context = call.query
    /\ \E i, j \in 1..Len(call.context) :
          i # j /\ call.context[i] # 0 /\ call.context[j] # 0
    /\ DResult.relevance_ratio > SCALE - RatioTol

\* C25: every element of the gate lies strictly between 0 and 1, never
\* exactly 0 or 1, for arbitrary logits, those clipped at the ends of the safe
\* range included.
C25_GateStrictlyInside ==
    call.op = "sigmoid" => (0 < Val(call.result) /\ Val(call.result) < SCALE)

\* C27: the residual has one singular value, so it goes whole to N or to S
\* and at most one of S and N is non-zero in any result: N is the residual
\* when its energy share exceeds 1 - noise_threshold (one noise component),
\* S is the residual otherwise.
C27_ResidualGoesToOne ==
    Decomposed =>
        /\ DResult.n_components = 1 =>
              /\ Norm(VSub(DResult.N, Residual)) <= RatioTol
              /\ Norm(DResult.S) <= RatioTol
        /\ DResult.n_components = 0 =>
              /\ DResult.S = Residual
              /\ IsZeroVec(DResult.N)

\* C28: r_components, s_components and n_components count the spectral
\* components attributed to R, S and N: n_components is 1 when the residual
\* is noise and 0 otherwise, s_components is 1 when the residual is
\* attributed to S, and s_components + n_components is the number of singular
\* values, 1.
C28_ComponentCounts ==
    Decomposed =>
        /\ DResult.r_components = 1
        /\ DResult.n_components \in {0, 1}
        /\ DResult.n_components = 0 => DResult.s_components >= 1
        /\ DResult.s_components + DResult.n_components = 1

\* what the last decompose call returns for the negated candidate
DNegated ==
    DecomposeWith(ToNumpy(Neg(call.context)), ToNumpy(call.query), call.svd_raises)

\* rounding allowance when two results are compared field by field
SignTol == 5 * EPS

\* C29: decompose is blind to the sign of the candidate: decompose(-Y, q)
\* returns the same relevance_ratio, superfluous_ratio, noise_ratio,
\* signal_quality and confidence as decompose(Y, q).
C29_SignBlind ==
    Decomposed =>
        /\ Abs(DNegated.relevance_ratio - DResult.relevance_ratio) <= SignTol
        /\ Abs(DNegated.superfluous_ratio - DResult.superfluous_ratio) <= SignTol
        /\ Abs(DNegated.noise_ratio - DResult.noise_ratio) <= SignTol
        /\ Abs(DNegated.signal_quality - DResult.signal_quality) <= SignTol
        /\ Abs(DNegated.confidence - DResult.confidence) <= SignTol

----------------------------------------------------------------------------
(* The retriever and the classifier, called directly *)

Retrieved == call.op = "retrieve"
\* the candidates of the last retrieve call that have an embedding
Eligible == ValidCandidates(ctx, call.candidates)
AllEmbedded == Len(Eligible) = Len(call.candidates)
NonIncreasing(s) == \A i \in 1..(Len(s) - 1) : s[i] >= s[i + 1]
NoRepeat(s) == \A i, j \in 1..Len(s) : i # j => s[i] # s[j]

\* C2: for a query with an embedding, retrieve returns min(top_k, number of
\* candidates with an embedding) candidates and never more than top_k, exactly
\* k when all n candidates have embeddings and 0 <= k < n, in non-increasing
\* order of final score, each stamped with that score, none returned twice.
C2_RetrievalCardinality ==
    (Retrieved /\ ~IsNone(call.query)) =>
        /\ ~call.raised
        /\ Len(call.ret) = Min(call.top_k, Len(Eligible))
        /\ Len(call.ret) <= call.top_k
        /\ (AllEmbedded /\ call.top_k < Len(call.candidates)) => Len(call.ret) = call.top_k
        /\ NonIncreasing(call.scores)
        /\ \A n \in 1..Len(call.ret) :
              /\ call.ret[n] \in {Eligible[m] : m \in 1..Len(Eligible)}
              /\ ctx[call.ret[n]].relevance_score = Some(call.scores[n])
        /\ NoRepeat(call.ret)

\* retrieve has cut two embedded candidates with different scores down to one
C2_Witness ==
    /\ Retrieved
    /\ ~IsNone(call.query)
    /\ AllEmbedded
    /\ Len(call.candidates) = 2
    /\ call.top_k = 1
    /\ Len(call.ret) = 1
    /\ \E o \in DOMAIN ctx : o # call.ret[1] /\ IsNone(ctx[o].relevance_score)

\* ContextBlock.is_classified
IsClassified(block) == ~IsNone(block.relevance_score)

AllUnset(block) ==
    IsNone(block.relevance_score) /\ IsNone(block.superfluous_score) /\ IsNone(block.noise_score)
AllSet(block) ==
    ~IsNone(block.relevance_score) /\ ~IsNone(block.superfluous_score) /\ ~IsNone(block.noise_score)

\* C7: in every reachable state each candidate has its three scores all unset
\* or all set, and is_classified() is true exactly when all three are set.
C7_ScoresAllOrNothing ==
    \A o \in DOMAIN ctx :
        /\ AllUnset(ctx[o]) \/ AllSet(ctx[o])
        /\ IsClassified(ctx[o]) <=> AllSet(ctx[o])

\* C10: classify_context on a candidate or a query without embedding raises
\* the missing-embedding error, returns nothing and leaves every score field
\* as it was; with both embeddings present it does not raise.
C10_MissingEmbedding ==
    [][ (ncalls' # ncalls /\ call'.op = "classify") =>
          LET missing == IsNone(call'.query) \/ IsNone(ctx[call'.target].embedding)
          IN  /\ call'.raised <=> missing
              /\ missing => (ctx' = ctx /\ call'.ret = <<>>) ]_vars

\* classify_context has raised on a block without embedding, its scores unset
C10_Witness ==
    /\ call.op = "classify"
    /\ call.raised
    /\ ~IsNone(call.query)
    /\ IsNone(ctx[call.target].embedding)
    /\ AllUnset(ctx[call.target])

BatchClassified == call.op = "classify_batch"
InList(list, o) == \E n \in 1..Len(list) : list[n] = o
Pos(list, o) == CHOOSE n \in 1..Len(list) : list[n] = o

\* C11: for a list of candidates that all have embeddings and a query with an
\* embedding, classify_batch (the engine's batch_classify) returns the input list in its
\* order, and leave each listed candidate with exactly the scores classify
\* gives it when called on it alone, whatever the other items and its
\* position; candidates outside the list are as they were.
C11_BatchIsPerItemMap ==
    [][ (ncalls' # ncalls /\ call'.op = "classify_batch" /\ ~IsNone(call'.query)
            /\ \A n \in 1..Len(call'.candidates) :
                   ~IsNone(ctx[call'.candidates[n]].embedding)) =>
          /\ ~call'.raised
          /\ call'.ret = call'.candidates
          /\ \A o \in DOMAIN ctx :
                ctx'[o] = IF InList(call'.candidates, o)
                          THEN Classify(ctx, o, call'.query).heap[o]
                          ELSE ctx[o] ]_vars

\* a batch call has classified two candidates of different embeddings, the
\* second with scores that differ from the first's
C11_Witness ==
    /\ BatchClassified
    /\ ~call.raised
    /\ Len(call.ret) = 2
    /\ AllSet(ctx[call.ret[1]])
    /\ AllSet(ctx[call.ret[2]])
    /\ ctx[call.ret[1]].relevance_score # ctx[call.ret[2]].relevance_score

\* the first position of the list whose block has no embedding
FirstMissing(heap, list) ==
    CHOOSE j \in 1..Len(list) :
        /\ IsNone(heap[list[j]].embedding)
        /\ \A m \in 1..(j - 1) : ~IsNone(heap[list[m]].embedding)

\* C30: batch_classify is not atomic: when it raises the missing-embedding
\* error because the item at position j lacks an embedding (the query having
\* one), the items before j have had their three score fields written as
\* classify writes them, the items from j onward and every block outside the
\* list are unchanged, and no list is returned.
C30_BatchNotAtomic ==
    [][ (ncalls' # ncalls /\ call'.op = "classify_batch" /\ ~IsNone(call'.query)
            /\ \E n \in 1..Len(call'.candidates) :
                   IsNone(ctx[call'.candidates[n]].embedding)) =>
          LET j == FirstMissing(ctx, call'.candidates)
          IN  /\ call'.raised
              /\ call'.ret = <<>>
              /\ \A o \in DOMAIN ctx :
                    ctx'[o] = IF InList(call'.candidates, o) /\ Pos(call'.candidates, o) < j
                              THEN Classify(ctx, o, call'.query).heap[o]
                              ELSE ctx[o] ]_vars

\* a batch call has raised on its second item after scoring the first
C30_Witness ==
    /\ BatchClassified
    /\ call.raised
    /\ ~IsNone(call.query)
    /\ Len(call.candidates) = 2
    /\ AllSet(ctx[call.candidates[1]])
    /\ IsNone(ctx[call.candidates[2]].embedding)
    /\ AllUnset(ctx[call.candidates[2]])

\* C12: retrieve, classify and batch_classify change nothing but score fields:
\* retrieve writes only relevance_score and only on the candidates it returns
\* (those cut off by top_k or lacking an embedding are untouched), classify
\* writes only the scores of the candidate passed in, a batch call only those
\* of the listed candidates; no block is created or dropped, every embedding
\* and the stored list are unchanged.
C12_FrameEffect ==
    [][ ncalls' # ncalls =>
          /\ Len(ctx') = Len(ctx)
          /\ contexts' = contexts
          /\ \A o \in DOMAIN ctx :
                /\ ctx'[o].embedding = ctx[o].embedding
                /\ call'.op = "retrieve" =>
                      /\ ctx'[o].superfluous_score = ctx[o].superfluous_score
                      /\ ctx'[o].noise_score = ctx[o].noise_score
                      /\ ~InList(call'.ret, o) => ctx'[o] = ctx[o]
                /\ call'.op = "classify" => (o # call'.target => ctx'[o] = ctx[o])
                /\ call'.op = "classify_batch" =>
                      (~InList(call'.candidates, o) => ctx'[o] = ctx[o]) ]_vars

\* retrieve has stamped the one candidate it returned and left its other two
\* scores unset, while an embedded candidate cut off by top_k has no score
C12_Witness ==
    /\ Retrieved
    /\ Len(call.ret) = 1
    /\ ~IsNone(ctx[call.ret[1]].relevance_score)
    /\ IsNone(ctx[call.ret[1]].superfluous_score)
    /\ IsNone(ctx[call.ret[1]].noise_score)
    /\ \E o \in DOMAIN ctx :
          /\ o # call.ret[1]
          /\ InList(call.candidates, o)
          /\ ~IsNone(ctx[o].embedding)
          /\ AllUnset(ctx[o])

\* the gate vector of the last retrieve call: sigmoid(q W_gate + b), all of it
WholeGate ==
    LET gate_logits == GateLogits(ToNumpy(call.query), W_gate)
    IN  [j \in 1..W_gate.dim |-> Sigmoid(gate_logits[j])]

\* C14: each candidate retrieve returns carries relevance_score equal to
\* rawDot(q, K[i]) times the mean of the entire gate vector, a multiplier that
\* depends on the query and the gate parameters only, not on the candidates.
C14_MeanOfWholeGate ==
    (Retrieved /\ ~call.raised) =>
        \A n \in 1..Len(call.ret) :
            ctx[call.ret[n]].relevance_score =
                Some(Mul(Dot(ToNumpy(call.query), ToNumpy(ctx[call.ret[n]].embedding)),
                         Mean(WholeGate)))

\* C15: when eligible candidates have equal final scores retrieve returns them
\* in their order in the candidate list, earlier first, and the top_k cut
\* keeps the earlier ones.
C15_TiesByPosition ==
    (Retrieved /\ ~call.raised) =>
        LET final(o) == Mul(Dot(ToNumpy(call.query), ToNumpy(ctx[o].embedding)),
                            Mean(Take(WholeGate, Len(Eligible))))
        IN  /\ \A a, b \in 1..Len(call.ret) :
                  (a < b /\ call.scores[a] = call.scores[b]) =>
                      Pos(Eligible, call.ret[a]) < Pos(Eligible, call.ret[b])
            /\ \A n \in 1..Len(call.ret) : \A m \in 1..Len(Eligible) :
                  (~InList(call.ret, Eligible[m]) /\ final(Eligible[m]) = call.scores[n]) =>
                      Pos(Eligible, call.ret[n]) < m

\* C16: retrieve never returns, scores or changes a candidate that lacks an
\* embedding and raises no error; when the candidate list is empty, no
\* candidate has an embedding or the query has none, it returns the empty list
\* and changes nothing.
C16_NoEmbeddingSkipped ==
    [][ (ncalls' # ncalls /\ call'.op = "retrieve") =>
          /\ ~call'.raised
          /\ \A o \in DOMAIN ctx :
                IsNone(ctx[o].embedding) => (~InList(call'.ret, o) /\ ctx'[o] = ctx[o])
          /\ (call'.candidates = <<>> \/ IsNone(call'.query)
                  \/ ValidCandidates(ctx, call'.candidates) = <<>>) =>
                (call'.ret = <<>> /\ ctx' = ctx) ]_vars

\* retrieve was given a candidate without embedding next to one with, asked
\* for both, and returned only the embedded one
C16_Witness ==
    /\ Retrieved
    /\ ~IsNone(call.query)
    /\ call.top_k = 2
    /\ Len(call.candidates) = 2
    /\ Len(call.ret) = 1
    /\ ~IsNone(ctx[call.ret[1]].relevance_score)
    /\ \E o \in DOMAIN ctx :
          InList(call.candidates, o) /\ IsNone(ctx[o].embedding) /\ AllUnset(ctx[o])

\* C17: retrieve is a function of its declared inputs: a second retriever
\* built with the same constructor arguments, given the same query, candidates
\* and top_k, returns the same candidates in the same order with the same
\* relevance_score values.
C17_SameInputsSameOutput ==
    [][ (ncalls' # ncalls /\ call'.op = "retrieve") =>
          \A other \in Instances(W_gate.dim) :
              \A out \in Retrieve(ctx, call'.query, call'.candidates, call'.top_k, other) :
                  out.ret = call'.ret /\ out.scores = call'.scores ]_vars

\* the orders retrieve may return for the arguments of a call, by instance
Orders(heap, c, W) ==
    {out.ret : out \in Retrieve(heap, c.query, c.candidates, c.top_k, W)}

\* C26: the gate is one positive scale factor for all candidates: what
\* retrieve returns is a top-k by raw dot product q . K[i], in non-increasing
\* order of it, and the same for every choice of gate weights.
C26_GateOnlyScales ==
    [][ (ncalls' # ncalls /\ call'.op = "retrieve" /\ ~call'.raised
            /\ ~IsNone(call'.query)) =>
          LET eligible == ValidCandidates(ctx, call'.candidates)
              raw(o) == Dot(ToNumpy(call'.query), ToNumpy(ctx[o].embedding))
              mine == Orders(ctx, call', W_gate)
          IN  /\ Len(call'.ret) = Min(call'.top_k, Len(eligible))
              /\ \A a, b \in 1..Len(call'.ret) :
                    a < b => raw(call'.ret[a]) >= raw(call'.ret[b])
              /\ \A n \in 1..Len(call'.ret) : \A m \in 1..Len(eligible) :
                    ~InList(call'.ret, eligible[m]) =>
                        raw(call'.ret[n]) >= raw(eligible[m])
              /\ \A other \in Instances(W_gate.dim) \ {W_gate} :
                    Orders(ctx, call', other) = mine ]_vars

\* a retriever with unequal gate entries has returned two candidates of
\* different raw dot product, the larger first
C26_Witness ==
    /\ Retrieved
    /\ W_gate.pattern = "cols"
    /\ Len(call.ret) = 2
    /\ call.scores[1] > call.scores[2]
    /\ Dot(ToNumpy(call.query), ToNumpy(ctx[call.ret[1]].embedding))
          > Dot(ToNumpy(call.query), ToNumpy(ctx[call.ret[2]].embedding))

----------------------------------------------------------------------------
(* The pipeline *)

\* the block carries the three ratios of its decomposition against the query
ScoredAgainst(o, query_embedding) ==
    LET result == Decompose(ToNumpy(ctx[o].embedding), ToNumpy(query_embedding))
    IN  /\ ctx[o].relevance_score = Some(result.relevance_ratio)
        /\ ctx[o].superfluous_score = Some(result.superfluous_ratio)
        /\ ctx[o].noise_score = Some(result.noise_ratio)

HasResult(i) == i \in DOMAIN results /\ ~IsNone(results[i])
ResultContexts(i) == Val(GetResult(i)).contexts
RelevanceOf(list) == [n \in 1..Len(list) |-> RelevanceKey(ctx, list[n])]
NoiseOf(list) == [n \in 1..Len(list) |-> NoiseKey(ctx, list[n])]
\* the submit_query call that began last
Latest(i) == i = Len(inv)

\* C3: in submit_query gated retrieval runs before classification: when
\* classification starts the blocks are the retriever's output and carry its
\* stamps; when the call stores its result and when it returns, every
\* candidate of the result carries the three ratios of its decomposition
\* against the call's query.
C3_RetrieveThenClassify ==
    \A i \in DOMAIN inv :
        /\ inv[i].pc = "classify" =>
              \E out \in Retrieve(ctx, inv[i].query, inv[i].candidates, RetrieveTopK, W_gate) :
                  out.ret = inv[i].results /\ out.heap = ctx
        /\ inv[i].pc = "store" =>
              /\ inv[i].classified = inv[i].results
              /\ \A n \in 1..Len(inv[i].classified) :
                    ScoredAgainst(inv[i].classified[n], inv[i].query)
        /\ (Latest(i) /\ inv[i].pc \in {"publish", "returned"}) =>
              /\ HasResult(i)
              /\ \A n \in 1..Len(ResultContexts(i)) :
                    ScoredAgainst(ResultContexts(i)[n], inv[i].query)

\* a call is about to return a result whose first candidate carries a
\* relevance ratio that differs from the retriever's stamp
C3_Witness ==
    \E i \in DOMAIN inv :
        /\ inv[i].pc = "publish"
        /\ HasResult(i)
        /\ Len(ResultContexts(i)) >= 1
        /\ ScoredAgainst(ResultContexts(i)[1], inv[i].query)
        /\ \E out \in Retrieve(ctx, inv[i].query, inv[i].candidates, RetrieveTopK, W_gate) :
              out.heap[ResultContexts(i)[1]].relevance_score
                  # ctx[ResultContexts(i)[1]].relevance_score

\* C5: the list the pipeline returns is in non-increasing order of
\* relevance_score, and candidates with equal relevance_score keep the order
\* they had after classification.
C5_SortedStable ==
    \A i \in DOMAIN inv :
        /\ inv[i].pc = "publish" =>
              LET final == ResultContexts(i)
                  post == inv[i].results
              IN  /\ Len(final) = Len(post)
                  /\ \A n \in 1..Len(post) : \E m \in 1..Len(final) : final[m] = post[n]
                  /\ \A a, b \in 1..Len(final) :
                        a < b =>
                          /\ RelevanceKey(ctx, final[a]) >= RelevanceKey(ctx, final[b])
                          /\ RelevanceKey(ctx, final[a]) = RelevanceKey(ctx, final[b])
                                => Pos(post, final[a]) < Pos(post, final[b])
        /\ (Latest(i) /\ inv[i].pc = "returned") =>
              NonIncreasing(RelevanceOf(ResultContexts(i)))

\* a result of two candidates with different embeddings and equal relevance_score
C5_Witness ==
    \E i \in DOMAIN inv :
        /\ inv[i].pc = "publish"
        /\ Len(ResultContexts(i)) = 2
        /\ ctx[ResultContexts(i)[1]].embedding # ctx[ResultContexts(i)[2]].embedding
        /\ RelevanceKey(ctx, ResultContexts(i)[1]) = RelevanceKey(ctx, ResultContexts(i)[2])
        /\ RelevanceKey(ctx, ResultContexts(i)[1]) > 0

\* C6: the aggregate statistics are the arithmetic means of relevance_score
\* and of noise_score over the final list, and both are 0.0 when the list is
\* empty.
C6_MeanStats ==
    \A i \in DOMAIN inv :
        inv[i].pc = "publish" =>
            LET final == ResultContexts(i)
                stats == Val(GetResult(i)).decomposition_stats
            IN  /\ stats.avg_relevance =
                     [nan |-> FALSE,
                      value |-> IF final = <<>> THEN 0 ELSE Mean(RelevanceOf(final))]
                /\ stats.avg_noise =
                     [nan |-> FALSE,
                      value |-> IF final = <<>> THEN 0 ELSE Mean(NoiseOf(final))]

\* C8: after any sequence of submit_query calls, every result produced earlier
\* still lists its candidates in non-increasing relevance_score order, with
\* the scores computed against its own query.
C8_EarlierResultsIntact ==
    Idle =>
        \A i \in DOMAIN inv :
            HasResult(i) =>
                /\ NonIncreasing(RelevanceOf(ResultContexts(i)))
                /\ \A n \in 1..Len(ResultContexts(i)) :
                      ScoredAgainst(ResultContexts(i)[n], inv[i].query)

\* C13: over any sequence of calls each score field of a candidate starts
\* unset and is assigned once: a field that holds a value is never written
\* again with another value.
C13_ScoresWrittenOnce ==
    [][ \A o \in DOMAIN ctx :
          /\ ~IsNone(ctx[o].relevance_score) =>
                ctx'[o].relevance_score = ctx[o].relevance_score
          /\ ~IsNone(ctx[o].superfluous_score) =>
                ctx'[o].superfluous_score = ctx[o].superfluous_score
          /\ ~IsNone(ctx[o].noise_score) =>
                ctx'[o].noise_score = ctx[o].noise_score ]_vars

\* C4: with a pool of n >= 1 stored candidates carrying embeddings of the
\* encoder's dimension and a query from the same encoder, the pipeline built
\* with the default retriever completes without error, and get_result then
\* returns a result for the query id with min(top_k, n) > 0 candidates, each
\* with all three scores set.
C4_EndToEnd ==
    \A i \in DOMAIN inv :
        contexts # <<>> =>
            /\ inv[i].pc # "failed"
            /\ inv[i].pc = "returned" =>
                  /\ HasResult(i)
                  /\ Val(GetResult(i)).query_id = i
                  /\ Len(ResultContexts(i)) = Min(RetrieveTopK, Len(contexts))
                  /\ Len(ResultContexts(i)) > 0
                  /\ \A n \in 1..Len(ResultContexts(i)) : AllSet(ctx[ResultContexts(i)[n]])

Holds(i, o) == HasResult(i) /\ \E n \in 1..Len(ResultContexts(i)) : ResultContexts(i)[n] = o

\* C9: results of overlapping submit_query calls hold the same block objects,
\* so the scores a result shows for a candidate are those of the call that
\* classified the block last: between calls' synchronous stretches every
\* candidate of every result carries the scores computed against the query of
\* one of the calls whose result holds it, not always its own.
C9_SharedScores ==
    NoSync =>
        \A i \in DOMAIN inv : \A o \in DOMAIN ctx :
            Holds(i, o) =>
                \E j \in DOMAIN inv : Holds(j, o) /\ ScoredAgainst(o, inv[j].query)

\* a call still waiting to return holds in its result a candidate whose scores
\* were computed against the query of another call, which began after it, and
\* differ from those against its own query
C9_Witness ==
    \E i, j \in DOMAIN inv : \E o \in DOMAIN ctx :
        /\ i < j
        /\ inv[i].pc = "publish"
        /\ inv[j].pc = "publish"
        /\ inv[i].query # inv[j].query
        /\ Holds(i, o)
        /\ Holds(j, o)
        /\ ScoredAgainst(o, inv[j].query)
        /\ ~ScoredAgainst(o, inv[i].query)

====
